---- MODULE Spec2Model ----
(***************************************************************************)
(* Model of the Google Workspace user sync client                          *)
(* (authentik/enterprise/providers/google_workspace/clients/users.py).     *)
(*                                                                         *)
(* Each caller (Procs) runs write(obj) or delete(obj) as a sequence of     *)
(* steps: one step per Link Table query, per document build and per remote *)
(* request.  The Link Table is a multiset of rows (user, id); the remote   *)
(* directory is the set of primaryEmail keys that exist in it.             *)
(***************************************************************************)
EXTENDS Integers, Sequences, FiniteSets, TLC

\* ------------------------------------------------------------------ values
\* Python values that occur in a Google user document.
Null == [t |-> "null"]
Str(s) == [t |-> "str", s |-> s]
Dict(f) == [t |-> "dict", d |-> f]
List(q) == [t |-> "list", l |-> q]

EmptyDict == Dict(<<>>)

\* Results of mapping.evaluate other than a fragment.
NoneOut == [t |-> "none"]
RaiseOut == [t |-> "raise"]

\* ------------------------------------------------------------ the universe
Users == {"u1", "u2"}
Procs == {"p1", "p2"}

\* Addresses of the workspace domain; BadAddr is outside of it.
Addrs == {"a@d", "b@d"}
BadAddr == "bad"

NoId == "none"

\* A property mapping attached to the provider: name is its rank in the
\* order of names, google says whether it is a GoogleWorkspaceProviderMapping,
\* out is what evaluate gives.
Mapping(name, google, out) == [name |-> name, google |-> google, out |-> out]

FragNameA == Dict("name" :> Str("A"))
FragNameB == Dict("name" :> Str("B"))
FragNullPrimary == Dict(("primaryEmail" :> Null) @@ ("nickName" :> Str("Bob")))
FragPrimaryB == Dict("primaryEmail" :> Str("b@d"))
FragPrimaryBad == Dict("primaryEmail" :> Str(BadAddr))
FragGiven == Dict("name" :> Dict("givenName" :> Str("A")))
FragFamily == Dict("name" :> Dict("familyName" :> Str("B")))
FragEmailsBad == Dict("emails" :> List(<<Dict("address" :> Str(BadAddr))>>))

\* The sets of mappings a provider is configured with.
MappingSets ==
    { {},
      {Mapping(1, TRUE, NoneOut)},
      {Mapping(1, FALSE, FragNameA)},
      {Mapping(1, TRUE, FragNameA), Mapping(2, TRUE, FragNameB)},
      {Mapping(1, TRUE, FragGiven), Mapping(2, TRUE, FragFamily)},
      {Mapping(1, TRUE, FragNullPrimary)},
      {Mapping(1, TRUE, FragPrimaryB), Mapping(2, TRUE, NoneOut)},
      {Mapping(1, TRUE, FragPrimaryBad)},
      {Mapping(1, TRUE, FragEmailsBad)},
      {Mapping(1, TRUE, FragNameA), Mapping(2, TRUE, RaiseOut),
       Mapping(3, TRUE, FragNameB)} }

VARIABLES
    mappings,   \* provider.property_mappings
    email,      \* email[u]: the email attribute of user u
    links,      \* links[u][i]: number of GoogleWorkspaceProviderUser rows (u, i)
    remote,     \* keys of the users that exist in the directory
    proc,       \* proc[p]: the call caller p is running, or has completed
    last,       \* last[u]: id linked by the last call on u, when that call was
                \* a write that created the link and nothing changed since
    overlapped, \* overlapped[u]: two calls on user u have been in flight together
    failures,   \* number of failures the environment has injected into retried calls
    started,    \* number of calls started, where the calls are not serialized
    user_objects,   \* user_objects[o]: number of User rows named pb-outpost-<o.uuid.hex>
    token_objects,  \* token_objects[o][k]: number of Token rows of kind k of that user
    access          \* the last access to Outpost.user or Outpost.token

sync == <<mappings, email, links, remote, proc, last>>
outposts == <<user_objects, token_objects, access>>
vars == <<mappings, email, links, remote, proc, last, overlapped, failures,
          started, user_objects, token_objects, access>>

\* --------------------------------------------------------------- to_schema
RECURSIVE Merge(_, _)
\* always_merger.merge: dicts merge key by key, lists append, anything else
\* is overridden by the later value.
Merge(base, nxt) ==
    IF base.t = "dict" /\ nxt.t = "dict"
    THEN Dict([k \in DOMAIN base.d \cup DOMAIN nxt.d |->
                 IF k \notin DOMAIN nxt.d THEN base.d[k]
                 ELSE IF k \notin DOMAIN base.d THEN nxt.d[k]
                 ELSE Merge(base.d[k], nxt.d[k])])
    ELSE IF base.t = "list" /\ nxt.t = "list"
    THEN List(base.l \o nxt.l)
    ELSE nxt

RECURSIVE OrderByNameDescending(_)
\* A bug: the mappings are taken in descending order of name.
OrderByNameDescending(ms) ==
    IF ms = {} THEN <<>>
    ELSE LET m == CHOOSE x \in ms : \A y \in ms : x.name >= y.name
         IN  <<m>> \o OrderByNameDescending(ms \ {m})

RECURSIVE OrderByName(_)
\* property_mappings.all().order_by("name")
OrderByName(ms) ==
    IF ms = {} THEN <<>>
    ELSE LET m == CHOOSE x \in ms : \A y \in ms : x.name <= y.name
         IN  <<m>> \o OrderByName(ms \ {m})

\* mapping.evaluate(user=obj, request=None, provider=self.provider)
evaluate(mapping, obj) == mapping.out

\* delete_none_values: the keys whose value is None are dropped.
delete_none_values(dict_) ==
    Dict([k \in {x \in DOMAIN dict_.d : dict_.d[x] # Null} |-> dict_.d[k]])

RECURSIVE EvaluateMappings(_, _, _, _)
\* The loop of to_schema over the ordered mappings, from position i on.
EvaluateMappings(seq, i, obj, raw_google_user) ==
    IF i > Len(seq)
    THEN [status |-> "ok", doc |-> raw_google_user, event |-> FALSE, evaluated |-> <<>>]
    ELSE LET mapping == seq[i]
             value == evaluate(mapping, obj)
             Evaluated(r) == [r EXCEPT !.evaluated = <<mapping.name>> \o @]
         IN  IF ~mapping.google
             THEN EvaluateMappings(seq, i + 1, obj, raw_google_user)
             ELSE IF value = RaiseOut
             THEN [status |-> "StopSync", doc |-> EmptyDict, event |-> TRUE,
                   evaluated |-> <<mapping.name>>]
             ELSE IF value = NoneOut
             THEN Evaluated(EvaluateMappings(seq, i + 1, obj, raw_google_user))
             ELSE Evaluated(EvaluateMappings(seq, i + 1, obj,
                                             Merge(raw_google_user, value)))

\* A bug: the empty document is not rejected.
to_schemaNoEmptyCheck(obj) ==
    LET r == EvaluateMappings(OrderByName(mappings), 1, obj, EmptyDict)
        raw_google_user == r.doc
    IN  IF r.status # "ok" THEN r
        ELSE [status |-> "ok",
              doc |-> delete_none_values(
                        IF "primaryEmail" \notin DOMAIN raw_google_user.d
                        THEN Dict(raw_google_user.d @@ ("primaryEmail" :> Str(email[obj])))
                        ELSE raw_google_user),
              event |-> FALSE, evaluated |-> r.evaluated]

to_schema(obj) ==
    LET r == EvaluateMappings(OrderByName(mappings), 1, obj, EmptyDict)
        raw_google_user == r.doc
    IN  IF r.status # "ok" THEN r
        ELSE IF DOMAIN raw_google_user.d = {}
        THEN [status |-> "StopSync", doc |-> EmptyDict, event |-> FALSE,
              evaluated |-> r.evaluated]
        ELSE [status |-> "ok",
              doc |-> delete_none_values(
                        IF "primaryEmail" \notin DOMAIN raw_google_user.d
                        THEN Dict(raw_google_user.d @@ ("primaryEmail" :> Str(email[obj])))
                        ELSE raw_google_user),
              event |-> FALSE, evaluated |-> r.evaluated]

\* check_email_valid: every address belongs to the workspace domain.
check_email_valid(emails) == \A e \in emails : e \in Addrs

\* google_user["primaryEmail"], *[x["address"] for x in google_user.get("emails", [])]
AddressesOf(google_user) ==
    {google_user.d["primaryEmail"].s} \cup
    (IF "emails" \in DOMAIN google_user.d
     THEN {google_user.d["emails"].l[i].d["address"].s :
              i \in 1..Len(google_user.d["emails"].l)}
     ELSE {})

\* ------------------------------------------------------------------- state
\* Most rows (u, i) of the Link Table the model lets a create add.
MaxRows == 3

NoRows == [i \in Addrs |-> 0]

\* The Link Table rows of one user after earlier syncs: none, or one row.
OneRowOrNone == {NoRows} \cup {[i \in Addrs |-> IF i = j THEN 1 ELSE 0] : j \in Addrs}

Idle == [op |-> "none", user |-> NoId, pc |-> "idle", google_user |-> NoId,
         built |-> "", doc |-> EmptyDict, response |-> NoId, pre |-> NoRows,
         calls |-> <<>>, result |-> "", event |-> FALSE, evaluated |-> <<>>,
         created |-> NoId,
         clean |-> FALSE, sound |-> FALSE, prev |-> NoId]

\* Calls on one user are serialized: each user has a single caller.
Owner == [p \in Procs |-> IF p = "p1" THEN "u1" ELSE "u2"]

\* ---------------------------------------------------------------- outposts
Outposts == {"o1", "o2"}

\* Kinds of Token rows: the API token that never expires, an API token that
\* expires and is still valid, one that has expired, a token of another intent.
TokenKinds == {"api_forever", "api_valid", "api_expired", "other_intent"}

NoTokens == [k \in TokenKinds |-> 0]

\* No property read yet. An access records the outpost and the property read,
\* the rows found (found_user, found_tokens) and created (created_user,
\* created_token) by it, the kind of the token returned, and, over all the
\* accesses, the outposts read and the rows created for each.
NoAccess == [outpost |-> NoId, property |-> "none",
             found_user |-> 0, found_tokens |-> NoTokens,
             created_user |-> 0, created_token |-> 0, returned |-> "none",
             accessed |-> {},
             users_created |-> [o \in Outposts |-> 0],
             tokens_created |-> [o \in Outposts |-> 0]]

\* No outpost exists: the state of the outpost tables while users are synced.
NoOutposts ==
    /\ user_objects = [o \in Outposts |-> 0]
    /\ token_objects = [o \in Outposts |-> NoTokens]
    /\ access = NoAccess

\* No call is retried and no two calls overlap.
NoRetries ==
    /\ overlapped = [u \in Users |-> FALSE]
    /\ failures = 0
    /\ started = 0

Init ==
    /\ mappings \in MappingSets
    /\ email \in {[u \in Users |-> IF u = "u1" THEN "a@d" ELSE e] : e \in Addrs}
    /\ links \in [Users -> OneRowOrNone]
    /\ remote \in SUBSET Addrs
    /\ proc = [p \in Procs |-> Idle]
    /\ last = [u \in Users |-> NoId]
    /\ NoRetries
    /\ NoOutposts

RECURSIVE SumRows(_, _)
SumRows(row, ids) ==
    IF ids = {} THEN 0
    ELSE LET i == CHOOSE x \in ids : TRUE
         IN  row[i] + SumRows(row, ids \ {i})

\* Number of rows of the Link Table for user u.
LinkCount(u) == SumRows(links[u], Addrs)

Call(api, key, outcome) == [api |-> api, key |-> key, outcome |-> outcome]

\* The call of caller p ends with res (returned "ok", or the exception raised).
Return(p, pr, res) ==
    /\ proc' = [proc EXCEPT ![p] = [pr EXCEPT !.pc = "done", !.result = res]]
    /\ last' = [last EXCEPT ![pr.user] =
                  IF pr.op = "write" /\ res = "ok" /\ pr.clean THEN pr.created ELSE NoId]

\* The directory was changed by somebody who is not running a call on user u:
\* the calls on the other users no longer run against an unchanged directory.
Disturb(pm, u) ==
    [q \in Procs |-> IF pm[q].user = u THEN pm[q]
                     ELSE [pm[q] EXCEPT !.clean = FALSE, !.prev = NoId]]

DisturbLast(u) == [v \in Users |-> IF v = u THEN last[v] ELSE NoId]

\* Every row of user u names a user that exists in the directory.
LinksResolve(u) == \A i \in Addrs : links[u][i] > 0 => i \in remote

\* ----------------------------------------------------- the directory client
\* self._request(...): the outcome of a request, as the directory classifies it.
InsertOutcomes(google_user) ==
    {"Transient", "StopSync"} \cup
    (IF google_user.d["primaryEmail"].s \in remote THEN {"ObjectExists"} ELSE {"ok"})

UpdateOutcomes(userKey) ==
    {"Transient", "StopSync"} \cup
    (IF userKey \in remote THEN {"ok"} ELSE {"NotFound"})

DeleteOutcomes(userKey) ==
    {"Transient", "StopSync"} \cup
    (IF userKey \in remote THEN {"ok"} ELSE {"NotFound"})

\* ------------------------------------------------------------------- write
StartWrite(p, obj) ==
    /\ proc[p].pc \in {"idle", "done"}
    /\ proc' = [proc EXCEPT ![p] =
                  [Idle EXCEPT !.op = "write", !.user = obj, !.pc = "lookup",
                               !.pre = links[obj], !.clean = TRUE,
                               !.sound = LinksResolve(obj), !.prev = last[obj]]]
    /\ UNCHANGED <<mappings, email, links, remote, last>>

\* A bug: write does not read the Link Table and always creates.
WriteLookupNoRead(p) ==
    LET pr == proc[p] IN
    /\ pr.op = "write" /\ pr.pc = "lookup"
    /\ proc' = [proc EXCEPT ![p].pc = "create_schema"]
    /\ UNCHANGED <<mappings, email, links, remote, last>>

\* GoogleWorkspaceProviderUser.objects.filter(provider, user=obj).first()
WriteLookup(p) ==
    LET pr == proc[p] IN
    /\ pr.op = "write" /\ pr.pc = "lookup"
    /\ \/ /\ LinkCount(pr.user) = 0
          /\ proc' = [proc EXCEPT ![p].pc = "create_schema"]
       \/ \E i \in Addrs :
            /\ links[pr.user][i] > 0
            /\ proc' = [proc EXCEPT ![p].pc = "update_schema", ![p].google_user = i]
    /\ UNCHANGED <<mappings, email, links, remote, last>>

\* A bug: the addresses of the document are not checked.
BuildDocumentNoCheck(p, from, to) ==
    LET pr == proc[p]
        r == to_schema(pr.user)
        built == [pr EXCEPT !.built = r.status, !.doc = r.doc,
                            !.event = pr.event \/ r.event,
                            !.evaluated = r.evaluated]
    IN
    /\ pr.op = "write" /\ pr.pc = from
    /\ IF r.status # "ok" THEN Return(p, built, r.status)
       ELSE IF "primaryEmail" \notin DOMAIN r.doc.d THEN Return(p, built, "KeyError")
       ELSE /\ proc' = [proc EXCEPT ![p] = [built EXCEPT !.pc = to]]
            /\ UNCHANGED last
    /\ UNCHANGED <<mappings, email, links, remote>>

\* to_schema and check_email_valid, as _create and _update both begin.
BuildDocument(p, from, to) ==
    LET pr == proc[p]
        r == to_schema(pr.user)
        built == [pr EXCEPT !.built = r.status, !.doc = r.doc,
                            !.event = pr.event \/ r.event,
                            !.evaluated = r.evaluated]
    IN
    /\ pr.op = "write" /\ pr.pc = from
    /\ IF r.status # "ok" THEN Return(p, built, r.status)
       ELSE IF "primaryEmail" \notin DOMAIN r.doc.d THEN Return(p, built, "KeyError")
       ELSE IF ~check_email_valid(AddressesOf(r.doc)) THEN Return(p, built, "BadRequest")
       ELSE /\ proc' = [proc EXCEPT ![p] = [built EXCEPT !.pc = to]]
            /\ UNCHANGED last
    /\ UNCHANGED <<mappings, email, links, remote>>

UpdateSchema(p) == BuildDocument(p, "update_schema", "update_request")

\* A bug: write handles every error of update as it handles NotFound.
UpdateRequestCatchAll(p) ==
    LET pr == proc[p] IN
    /\ pr.op = "write" /\ pr.pc = "update_request"
    /\ \E outcome \in UpdateOutcomes(pr.google_user) :
         LET called == [pr EXCEPT !.calls = Append(pr.calls,
                                     Call("update", pr.google_user, outcome))]
         IN  IF outcome # "ok"
             THEN /\ proc' = [proc EXCEPT ![p] = [called EXCEPT !.pc = "stale_delete"]]
                  /\ UNCHANGED last
             ELSE Return(p, called, outcome)
    /\ UNCHANGED <<mappings, email, links, remote>>

\* A bug: write lets NotFoundSyncException through.
UpdateRequestNoCatch(p) ==
    LET pr == proc[p] IN
    /\ pr.op = "write" /\ pr.pc = "update_request"
    /\ \E outcome \in UpdateOutcomes(pr.google_user) :
         Return(p, [pr EXCEPT !.calls = Append(pr.calls,
                                 Call("update", pr.google_user, outcome))], outcome)
    /\ UNCHANGED <<mappings, email, links, remote>>

\* self.directory_service.users().update(userKey=connection.id, body=google_user),
\* and write's except NotFoundSyncException.
UpdateRequest(p) ==
    LET pr == proc[p] IN
    /\ pr.op = "write" /\ pr.pc = "update_request"
    /\ \E outcome \in UpdateOutcomes(pr.google_user) :
         LET called == [pr EXCEPT !.calls = Append(pr.calls,
                                     Call("update", pr.google_user, outcome))]
         IN  IF outcome = "NotFound"
             THEN /\ proc' = [proc EXCEPT ![p] = [called EXCEPT !.pc = "stale_delete"]]
                  /\ UNCHANGED last
             ELSE Return(p, called, outcome)
    /\ UNCHANGED <<mappings, email, links, remote>>

\* A bug: the stale row is kept.
StaleDeleteSkipped(p) ==
    LET pr == proc[p] IN
    /\ pr.op = "write" /\ pr.pc = "stale_delete"
    /\ proc' = [proc EXCEPT ![p].pc = "create_schema"]
    /\ UNCHANGED <<mappings, email, links, remote, last>>

\* google_user.delete() in write
StaleDelete(p) ==
    LET pr == proc[p] IN
    /\ pr.op = "write" /\ pr.pc = "stale_delete"
    /\ links' = [links EXCEPT ![pr.user][pr.google_user] =
                    IF @ > 0 THEN @ - 1 ELSE @]
    /\ proc' = [proc EXCEPT ![p].pc = "create_schema"]
    /\ UNCHANGED <<mappings, email, remote, last>>

CreateSchema(p) == BuildDocument(p, "create_schema", "create_request")

\* A bug: ObjectExists is not caught and leaves write as an error.
CreateRequestNoAdopt(p) ==
    LET pr == proc[p]
        key == pr.doc.d["primaryEmail"].s
    IN
    /\ pr.op = "write" /\ pr.pc = "create_request"
    /\ \E outcome \in InsertOutcomes(pr.doc) :
         LET called == [pr EXCEPT !.calls = Append(pr.calls, Call("insert", key, outcome))]
         IN  CASE outcome = "ok" ->
                    /\ remote' = remote \cup {key}
                    /\ proc' = Disturb([proc EXCEPT ![p] =
                                  [called EXCEPT !.pc = "create_link", !.response = key]],
                                  pr.user)
                    /\ last' = DisturbLast(pr.user)
               [] OTHER ->
                    /\ Return(p, called, outcome)
                    /\ UNCHANGED remote
    /\ UNCHANGED <<mappings, email, links>>

\* self.directory_service.users().insert(body=google_user)
CreateRequest(p) ==
    LET pr == proc[p]
        key == pr.doc.d["primaryEmail"].s
    IN
    /\ pr.op = "write" /\ pr.pc = "create_request"
    /\ \E outcome \in InsertOutcomes(pr.doc) :
         LET called == [pr EXCEPT !.calls = Append(pr.calls, Call("insert", key, outcome))]
         IN  CASE outcome = "ok" ->
                    /\ remote' = remote \cup {key}
                    /\ proc' = Disturb([proc EXCEPT ![p] =
                                  [called EXCEPT !.pc = "create_link", !.response = key]],
                                  pr.user)
                    /\ last' = DisturbLast(pr.user)
               [] outcome = "ObjectExists" ->
                    /\ proc' = [proc EXCEPT ![p] = [called EXCEPT !.pc = "create_adopt"]]
                    /\ UNCHANGED <<remote, last>>
               [] OTHER ->
                    /\ Return(p, called, outcome)
                    /\ UNCHANGED remote
    /\ UNCHANGED <<mappings, email, links>>

\* A bug: the new row is keyed by the email of the user, not by the response.
CreateLinkByEmail(p) ==
    LET pr == proc[p] IN
    /\ pr.op = "write" /\ pr.pc = "create_link"
    /\ links[pr.user][email[pr.user]] < MaxRows
    /\ links' = [links EXCEPT ![pr.user][email[pr.user]] = @ + 1]
    /\ Return(p, [pr EXCEPT !.created = email[pr.user]], "ok")
    /\ UNCHANGED <<mappings, email, remote>>

\* else: objects.create(provider, user=user, id=response["primaryEmail"])
CreateLink(p) ==
    LET pr == proc[p] IN
    /\ pr.op = "write" /\ pr.pc = "create_link"
    /\ links[pr.user][pr.response] < MaxRows
    /\ links' = [links EXCEPT ![pr.user][pr.response] = @ + 1]
    /\ Return(p, [pr EXCEPT !.created = pr.response], "ok")
    /\ UNCHANGED <<mappings, email, remote>>

\* A bug: the adopted row is keyed by the document's primaryEmail.
AdoptedIdOfDocument(pr) == pr.doc.d["primaryEmail"].s

\* id=user.email
AdoptedId(pr) == email[pr.user]

\* except ObjectExistsSyncException: objects.create(provider, user=user, id=user.email)
CreateAdopt(p) ==
    LET pr == proc[p] IN
    /\ pr.op = "write" /\ pr.pc = "create_adopt"
    /\ links[pr.user][AdoptedId(pr)] < MaxRows
    /\ links' = [links EXCEPT ![pr.user][AdoptedId(pr)] = @ + 1]
    /\ Return(p, [pr EXCEPT !.created = AdoptedId(pr)], "ok")
    /\ UNCHANGED <<mappings, email, remote>>

\* ------------------------------------------------------------------ delete
StartDelete(p, obj) ==
    /\ proc[p].pc \in {"idle", "done"}
    /\ proc' = [proc EXCEPT ![p] =
                  [Idle EXCEPT !.op = "delete", !.user = obj, !.pc = "lookup",
                               !.pre = links[obj], !.clean = TRUE,
                               !.sound = LinksResolve(obj)]]
    /\ UNCHANGED <<mappings, email, links, remote, last>>

\* A bug: delete does not return when there is no row.
DeleteLookupNoSkip(p) ==
    LET pr == proc[p] IN
    /\ pr.op = "delete" /\ pr.pc = "lookup"
    /\ \E i \in Addrs :
         /\ links[pr.user][i] > 0 \/ LinkCount(pr.user) = 0
         /\ proc' = [proc EXCEPT ![p].pc = "delete_request", ![p].google_user = i]
    /\ UNCHANGED <<mappings, email, links, remote, last>>

\* objects.filter(provider, user=obj).first(); if not google_user: return None
DeleteLookup(p) ==
    LET pr == proc[p] IN
    /\ pr.op = "delete" /\ pr.pc = "lookup"
    /\ \/ /\ LinkCount(pr.user) = 0
          /\ Return(p, pr, "ok")
       \/ \E i \in Addrs :
            /\ links[pr.user][i] > 0
            /\ proc' = [proc EXCEPT ![p].pc = "delete_request", ![p].google_user = i]
            /\ UNCHANGED last
    /\ UNCHANGED <<mappings, email, links, remote>>

\* self.directory_service.users().delete(userKey=google_user.id)
DeleteRequest(p) ==
    LET pr == proc[p] IN
    /\ pr.op = "delete" /\ pr.pc = "delete_request"
    /\ \E outcome \in DeleteOutcomes(pr.google_user) :
         LET called == [pr EXCEPT !.calls = Append(pr.calls,
                                     Call("delete", pr.google_user, outcome))]
         IN  IF outcome = "ok"
             THEN /\ remote' = remote \ {pr.google_user}
                  /\ proc' = Disturb([proc EXCEPT ![p] =
                                [called EXCEPT !.pc = "delete_unlink"]], pr.user)
                  /\ last' = DisturbLast(pr.user)
             ELSE /\ Return(p, called, outcome)
                  /\ UNCHANGED remote
    /\ UNCHANGED <<mappings, email, links>>

\* A bug: the row is kept after the remote delete.
DeleteUnlinkSkipped(p) ==
    LET pr == proc[p] IN
    /\ pr.op = "delete" /\ pr.pc = "delete_unlink"
    /\ Return(p, pr, "ok")
    /\ UNCHANGED <<mappings, email, links, remote>>

\* google_user.delete() in delete
DeleteUnlink(p) ==
    LET pr == proc[p] IN
    /\ pr.op = "delete" /\ pr.pc = "delete_unlink"
    /\ links' = [links EXCEPT ![pr.user][pr.google_user] =
                    IF @ > 0 THEN @ - 1 ELSE @]
    /\ Return(p, pr, "ok")
    /\ UNCHANGED <<mappings, email, remote>>

\* ------------------------------------------------------- the remote system
\* A user of the directory is deleted by somebody else.
OutOfBandDelete(a) ==
    /\ a \in remote
    /\ remote' = remote \ {a}
    /\ proc' = Disturb(proc, "")
    /\ last' = DisturbLast("")
    /\ UNCHANGED <<mappings, email, links>>

\* A user is created in the directory by somebody else.
OutOfBandCreate(a) ==
    /\ a \notin remote
    /\ remote' = remote \cup {a}
    /\ proc' = Disturb(proc, "")
    /\ last' = DisturbLast("")
    /\ UNCHANGED <<mappings, email, links>>

Next ==
    \/ \E p \in Procs : StartWrite(p, Owner[p])
         /\ UNCHANGED <<overlapped, failures, started, outposts>>
    \/ \E p \in Procs : WriteLookup(p)
         /\ UNCHANGED <<overlapped, failures, started, outposts>>
    \/ \E p \in Procs : UpdateSchema(p)
         /\ UNCHANGED <<overlapped, failures, started, outposts>>
    \/ \E p \in Procs : UpdateRequest(p)
         /\ UNCHANGED <<overlapped, failures, started, outposts>>
    \/ \E p \in Procs : StaleDelete(p)
         /\ UNCHANGED <<overlapped, failures, started, outposts>>
    \/ \E p \in Procs : CreateSchema(p)
         /\ UNCHANGED <<overlapped, failures, started, outposts>>
    \/ \E p \in Procs : CreateRequest(p)
         /\ UNCHANGED <<overlapped, failures, started, outposts>>
    \/ \E p \in Procs : CreateLink(p)
         /\ UNCHANGED <<overlapped, failures, started, outposts>>
    \/ \E p \in Procs : CreateAdopt(p)
         /\ UNCHANGED <<overlapped, failures, started, outposts>>
    \/ \E p \in Procs : StartDelete(p, Owner[p])
         /\ UNCHANGED <<overlapped, failures, started, outposts>>
    \/ \E p \in Procs : DeleteLookup(p)
         /\ UNCHANGED <<overlapped, failures, started, outposts>>
    \/ \E p \in Procs : DeleteRequest(p)
         /\ UNCHANGED <<overlapped, failures, started, outposts>>
    \/ \E p \in Procs : DeleteUnlink(p)
         /\ UNCHANGED <<overlapped, failures, started, outposts>>
    \/ \E a \in Addrs : OutOfBandDelete(a)
         /\ UNCHANGED <<overlapped, failures, started, outposts>>
    \/ \E a \in Addrs : OutOfBandCreate(a)
         /\ UNCHANGED <<overlapped, failures, started, outposts>>

Spec == Init /\ [][Next]_vars

\* ------------------------------------------------- to_schema on its own
\* Most mappings attached to the provider when to_schema is examined.
MaxMappings == 3

\* What a mapping can be there: a mapping of the provider's kind with one of
\* these results, or a mapping of another kind.
SchemaOptions ==
    ({NoneOut, FragNameA, FragNameB, FragGiven, FragFamily} \X {TRUE})
        \cup {<<FragNameB, FALSE>>}

\* Every set of at most MaxMappings mappings with distinct names.
SchemaMappingSets ==
    UNION {{ {Mapping(n, f[n][2], f[n][1]) : n \in S} : f \in [S -> SchemaOptions]} :
              S \in SUBSET (1..MaxMappings)}

InitSchema ==
    /\ mappings \in SchemaMappingSets
    /\ email \in {[u \in Users |-> IF u = "u1" THEN "a@d" ELSE e] : e \in Addrs}
    /\ links \in [Users -> OneRowOrNone]
    /\ remote = {}
    /\ proc = [p \in Procs |-> Idle]
    /\ last = [u \in Users |-> NoId]
    /\ NoRetries
    /\ NoOutposts

\* write as far as the document is built.
NextSchema ==
    \/ \E p \in Procs : StartWrite(p, Owner[p])
         /\ UNCHANGED <<overlapped, failures, started, outposts>>
    \/ \E p \in Procs : WriteLookup(p)
         /\ UNCHANGED <<overlapped, failures, started, outposts>>
    \/ \E p \in Procs : UpdateSchema(p)
         /\ UNCHANGED <<overlapped, failures, started, outposts>>
    \/ \E p \in Procs : CreateSchema(p)
         /\ UNCHANGED <<overlapped, failures, started, outposts>>

SpecSchema == InitSchema /\ [][NextSchema]_vars

\* ------------------------------------------------------- write with retries
\* Most failures (Transient answers, failed commits of a row) met by the calls.
MaxFailures == 2

InitRetry ==
    /\ mappings \in {{Mapping(1, TRUE, FragNameA)}, {Mapping(1, TRUE, FragPrimaryB)}}
    /\ email \in {[u \in Users |-> IF u = "u1" THEN "a@d" ELSE e] : e \in Addrs}
    /\ links \in [Users -> OneRowOrNone]
    /\ remote = {}
    /\ proc = [p \in Procs |-> Idle]
    /\ last = [u \in Users |-> NoId]
    /\ NoRetries
    /\ NoOutposts

Retryable == {"Transient", "IntegrityError"}

\* The caller calls write on its user, and again after each failure that a
\* retry can cure.
RetryWrite(p) ==
    /\ proc[p].pc = "done" => proc[p].result \in Retryable
    /\ StartWrite(p, Owner[p])

\* with transaction.atomic(): the row is not committed and the error leaves write.
CommitFailure(p) ==
    LET pr == proc[p] IN
    /\ pr.op = "write" /\ pr.pc \in {"create_link", "create_adopt"}
    /\ Return(p, pr, "IntegrityError")
    /\ UNCHANGED <<mappings, email, links, remote>>

\* The failures that a retry can cure stop after MaxFailures of them, and the
\* directory refuses no request for good.
Budget(p) ==
    IF proc'[p].pc = "done" /\ proc'[p].result # "ok"
    THEN /\ proc'[p].result # "StopSync"
         /\ IF proc'[p].result \in Retryable
            THEN failures < MaxFailures /\ failures' = failures + 1
            ELSE failures' = failures
    ELSE failures' = failures

RetryStep(p) ==
    \/ RetryWrite(p) /\ UNCHANGED <<overlapped, failures, started, outposts>>
    \/ WriteLookup(p) /\ UNCHANGED <<overlapped, failures, started, outposts>>
    \/ UpdateSchema(p) /\ UNCHANGED <<overlapped, failures, started, outposts>>
    \/ UpdateRequest(p) /\ Budget(p) /\ UNCHANGED <<overlapped, started, outposts>>
    \/ StaleDelete(p) /\ UNCHANGED <<overlapped, failures, started, outposts>>
    \/ CreateSchema(p) /\ UNCHANGED <<overlapped, failures, started, outposts>>
    \/ CreateRequest(p) /\ Budget(p) /\ UNCHANGED <<overlapped, started, outposts>>
    \/ CreateLink(p) /\ UNCHANGED <<overlapped, failures, started, outposts>>
    \/ CreateAdopt(p) /\ UNCHANGED <<overlapped, failures, started, outposts>>
    \/ CommitFailure(p) /\ Budget(p) /\ UNCHANGED <<overlapped, started, outposts>>

NextRetry == \E p \in Procs : RetryStep(p)

\* A call that has started runs to its end, and the caller does retry.
SpecRetry == InitRetry /\ [][NextRetry]_vars /\ \A p \in Procs : WF_vars(RetryStep(p))

\* ------------------------------------------------ calls without serialization
\* A call of another caller on user u has started and not ended.
InFlight(u, p) ==
    \E q \in Procs \ {p} : proc[q].user = u /\ proc[q].pc \notin {"idle", "done"}

\* Most calls started where the calls are not serialized.
MaxCalls == 3

\* A call on user u starts. overlapped[u] tells that calls on u ran at the same
\* time since the last moment u had at most one row and no call running.
StartOverlap(p, u) ==
    /\ started < MaxCalls
    /\ started' = started + 1
    /\ overlapped' = [overlapped EXCEPT ![u] =
                         InFlight(u, p) \/ (overlapped[u] /\ LinkCount(u) >= 2)]

InitConcurrent ==
    /\ mappings = {Mapping(1, TRUE, FragNameA)}
    /\ email \in {[u \in Users |-> IF u = "u1" THEN "a@d" ELSE e] : e \in Addrs}
    /\ links \in [Users -> OneRowOrNone]
    /\ remote \in SUBSET Addrs
    /\ proc = [p \in Procs |-> Idle]
    /\ last = [u \in Users |-> NoId]
    /\ NoRetries
    /\ NoOutposts

\* Any caller may call write or delete on any user at any time.
NextConcurrent ==
    \/ \E p \in Procs, u \in Users : StartWrite(p, u) /\ StartOverlap(p, u)
         /\ UNCHANGED <<failures, outposts>>
    \/ \E p \in Procs, u \in Users : StartDelete(p, u) /\ StartOverlap(p, u)
         /\ UNCHANGED <<failures, outposts>>
    \/ \E p \in Procs : WriteLookup(p)
         /\ UNCHANGED <<overlapped, failures, started, outposts>>
    \/ \E p \in Procs : UpdateSchema(p)
         /\ UNCHANGED <<overlapped, failures, started, outposts>>
    \/ \E p \in Procs : UpdateRequest(p)
         /\ UNCHANGED <<overlapped, failures, started, outposts>>
    \/ \E p \in Procs : StaleDelete(p)
         /\ UNCHANGED <<overlapped, failures, started, outposts>>
    \/ \E p \in Procs : CreateSchema(p)
         /\ UNCHANGED <<overlapped, failures, started, outposts>>
    \/ \E p \in Procs : CreateRequest(p)
         /\ UNCHANGED <<overlapped, failures, started, outposts>>
    \/ \E p \in Procs : CreateLink(p)
         /\ UNCHANGED <<overlapped, failures, started, outposts>>
    \/ \E p \in Procs : CreateAdopt(p)
         /\ UNCHANGED <<overlapped, failures, started, outposts>>
    \/ \E p \in Procs : DeleteLookup(p)
         /\ UNCHANGED <<overlapped, failures, started, outposts>>
    \/ \E p \in Procs : DeleteRequest(p)
         /\ UNCHANGED <<overlapped, failures, started, outposts>>
    \/ \E p \in Procs : DeleteUnlink(p)
         /\ UNCHANGED <<overlapped, failures, started, outposts>>

SpecConcurrent == InitConcurrent /\ [][NextConcurrent]_vars

\* ---------------------------------------------------------------- outposts
\* Most User rows of one name, and most Token rows of one kind and user.
MaxObjects == 2

\* User.objects.create(username=f"pb-outpost-{self.uuid.hex}")
_create_user(users, o) == [users EXCEPT ![o] = @ + 1]

\* A bug: the user is created at every access.
userAlwaysCreates(users, o) == [objects |-> _create_user(users, o), created |-> 1]

\* Outpost.user: the User rows after the access, and the number it created.
user(users, o) ==
    IF users[o] > 0
    THEN [objects |-> users, created |-> 0]
    ELSE [objects |-> _create_user(users, o), created |-> 1]

\* Token.filter_not_expired(user=..., intent=TokenIntents.INTENT_API)
filter_not_expired(tokens) == {k \in {"api_forever", "api_valid"} : tokens[k] > 0}

Accessed(o, property, found, created_user, created_token, returned) ==
    access' = [outpost |-> o, property |-> property,
               found_user |-> user_objects[o], found_tokens |-> found,
               created_user |-> created_user, created_token |-> created_token,
               returned |-> returned,
               accessed |-> access.accessed \cup {o},
               users_created |-> [access.users_created EXCEPT ![o] = @ + created_user],
               tokens_created |-> [access.tokens_created EXCEPT ![o] = @ + created_token]]

\* outpost.user is read.
AccessUser(o) ==
    LET u == user(user_objects, o) IN
    /\ u.objects[o] <= MaxObjects
    /\ user_objects' = u.objects
    /\ Accessed(o, "user", NoTokens, u.created, 0, "none")
    /\ UNCHANGED <<token_objects, sync, overlapped, failures, started>>

\* outpost.token is read.
AccessToken(o) ==
    LET u == user(user_objects, o)
        token == filter_not_expired(token_objects[o])
    IN
    /\ IF token # {}
       THEN /\ u.objects[o] <= MaxObjects
            /\ user_objects' = u.objects
            /\ UNCHANGED token_objects
            /\ \E k \in token : Accessed(o, "token", token_objects[o], u.created, 0, k)
       ELSE LET v == user(u.objects, o) IN
            /\ v.objects[o] <= MaxObjects
            /\ token_objects[o]["api_forever"] < MaxObjects
            /\ user_objects' = v.objects
            /\ token_objects' = [token_objects EXCEPT ![o]["api_forever"] = @ + 1]
            /\ Accessed(o, "token", token_objects[o], u.created + v.created, 1,
                        "api_forever")
    /\ UNCHANGED <<sync, overlapped, failures, started>>

\* Time passes: a token that expires is no longer valid.
Expire(o) ==
    /\ token_objects[o]["api_valid"] > 0
    /\ token_objects[o]["api_expired"] < MaxObjects
    /\ token_objects' = [token_objects EXCEPT ![o]["api_valid"] = @ - 1,
                                               ![o]["api_expired"] = @ + 1]
    /\ UNCHANGED <<user_objects, access, sync, overlapped, failures, started>>

\* An outpost has no user yet, or its user with any tokens.
InitOutpost ==
    /\ mappings = {}
    /\ email = [u \in Users |-> "a@d"]
    /\ links = [u \in Users |-> NoRows]
    /\ remote = {}
    /\ proc = [p \in Procs |-> Idle]
    /\ last = [u \in Users |-> NoId]
    /\ NoRetries
    /\ user_objects \in [Outposts -> 0..1]
    /\ token_objects \in [Outposts -> [TokenKinds -> 0..1]]
    /\ \A o \in Outposts : user_objects[o] = 0 => token_objects[o] = NoTokens
    /\ access = NoAccess

NextOutpost ==
    \/ \E o \in Outposts : AccessUser(o)
    \/ \E o \in Outposts : AccessToken(o)
    \/ \E o \in Outposts : Expire(o)

SpecOutpost == InitOutpost /\ [][NextOutpost]_vars

TypeOK ==
    /\ mappings \in MappingSets
    /\ remote \subseteq Addrs
    /\ \A u \in Users : email[u] \in Addrs /\ last[u] \in Addrs \cup {NoId}
    /\ \A u \in Users : \A i \in Addrs : links[u][i] \in 0..MaxRows
    /\ \A p \in Procs : proc[p].op \in {"none", "write", "delete"}

\* ------------------------------------------------------------------ claims
Done(p) == proc[p].pc = "done"

Outcomes(calls) == [n \in 1..Len(calls) |-> calls[n].outcome]
Apis(calls) == [n \in 1..Len(calls) |-> calls[n].api]

\* C1: a call that starts with every row of its user naming an existing remote
\* user, and during which nobody else changes the directory, ends with (a) a
\* row whose id names an existing remote user, or (b) no row and none of the
\* remote users it created or deleted in existence.
EveryCallEndsConsistent ==
    \A p \in Procs :
        LET pr == proc[p] IN
        (Done(p) /\ pr.sound /\ pr.clean) =>
            \/ LinkCount(pr.user) >= 1 /\ LinksResolve(pr.user)
            \/ /\ LinkCount(pr.user) = 0
               /\ \A n \in 1..Len(pr.calls) :
                    pr.calls[n].outcome = "ok" => pr.calls[n].key \notin remote

\* C2: a write that follows a write which created the row of its user, with no
\* change of the directory by anybody else since, requests one update and no
\* insert, and leaves exactly one row, with the id the first write gave it.
SecondWriteUpdates ==
    \A p \in Procs :
        LET pr == proc[p] IN
        (Done(p) /\ pr.op = "write" /\ pr.prev # NoId) =>
            /\ Apis(pr.calls) = <<"update">>
            /\ LinkCount(pr.user) = 1
            /\ links[pr.user][pr.prev] = 1

\* C3: a delete whose remote delete reports NotFound returns without error and
\* leaves no row for its user.
DeleteNotFoundIsSuccess ==
    \A p \in Procs :
        LET pr == proc[p] IN
        (Done(p) /\ pr.op = "delete" /\ Outcomes(pr.calls) = <<"NotFound">>) =>
            pr.result = "ok" /\ LinkCount(pr.user) = 0

\* C4: a call that ends with a Transient error leaves the rows of its user as
\* they were when the call began.
TransientLeavesLinksUnchanged ==
    \A p \in Procs :
        LET pr == proc[p] IN
        (Done(p) /\ pr.result = "Transient") => links[pr.user] = pr.pre

\* C5: when update reports NotFound, write deletes the stale row and requests
\* an insert; it never ends with NotFound, it ends with StopSync only when the
\* insert itself fails so, and when the insert succeeds it ends normally with
\* exactly one row, keyed by the remote user just created.
StaleLinkIsReplaced ==
    \A p \in Procs :
        LET pr == proc[p] IN
        (pr.op = "write" /\ Len(pr.calls) >= 1 /\ pr.calls[1].outcome = "NotFound") =>
            /\ pr.calls[1].api = "update"
            /\ pr.pc = "stale_delete" => links[pr.user] = pr.pre
            /\ pr.pc \in {"create_schema", "create_request"} => LinkCount(pr.user) = 0
            /\ Done(p) =>
                 /\ Apis(pr.calls) = <<"update", "insert">>
                 /\ pr.result \in {"ok", "Transient", "StopSync"}
                 /\ pr.result = "StopSync" => pr.calls[2].outcome = "StopSync"
                 /\ pr.calls[2].outcome = "ok" =>
                      /\ pr.result = "ok"
                      /\ LinkCount(pr.user) = 1
                      /\ links[pr.user][pr.calls[2].key] = 1

StaleLinkReplacedReached ==
    \E p \in Procs :
        /\ Done(p) /\ proc[p].op = "write" /\ proc[p].result = "ok"
        /\ Outcomes(proc[p].calls) = <<"NotFound", "ok">>
        /\ LinkCount(proc[p].user) = 1

\* C6: when the insert reports ObjectExists, write returns normally and its
\* user has exactly one row, whose id is the email of the user.
ObjectExistsAdopts ==
    \A p \in Procs :
        LET pr == proc[p] IN
        (Done(p) /\ pr.op = "write" /\ Len(pr.calls) >= 1
                 /\ pr.calls[Len(pr.calls)].outcome = "ObjectExists") =>
            /\ pr.result = "ok"
            /\ LinkCount(pr.user) = 1
            /\ links[pr.user][email[pr.user]] = 1

ObjectExistsAdoptedReached ==
    \E p \in Procs :
        /\ Done(p) /\ proc[p].op = "write"
        /\ Outcomes(proc[p].calls) = <<"ObjectExists">>
        /\ proc[p].doc.d["primaryEmail"].s # email[proc[p].user]
        /\ links[proc[p].user][email[proc[p].user]] = 1

\* No mapping of the provider's kind gives a fragment.
NothingMapped == \A m \in mappings : m.google => m.out = NoneOut

\* C7: when no mapping gives a fragment, write makes no remote request, leaves
\* the rows of its user as they were, and ends with StopSync.
NoMappingsStopSync ==
    \A p \in Procs :
        LET pr == proc[p] IN
        (pr.op = "write" /\ NothingMapped) =>
            /\ pr.calls = <<>>
            /\ links[pr.user] = pr.pre
            /\ Done(p) => pr.result = "StopSync"

NoMappingsWithLinkReached ==
    \E p \in Procs :
        /\ Done(p) /\ proc[p].op = "write" /\ NothingMapped
        /\ proc[p].result = "StopSync"
        /\ SumRows(proc[p].pre, Addrs) = 1 /\ proc[p].google_user # NoId

\* C8: the document to_schema returns has a primaryEmail, has no null field,
\* and when the merged mapping output has primaryEmail absent or null it is
\* that output without its null fields and with primaryEmail set to the email
\* of the user.
BuiltDocumentIsComplete ==
    \A p \in Procs :
        LET pr == proc[p]
            raw == EvaluateMappings(OrderByName(mappings), 1, pr.user, EmptyDict).doc
        IN
        pr.built = "ok" =>
            /\ "primaryEmail" \in DOMAIN pr.doc.d
            /\ \A k \in DOMAIN pr.doc.d : pr.doc.d[k] # Null
            /\ ("primaryEmail" \notin DOMAIN raw.d \/ raw.d["primaryEmail"] = Null) =>
                 pr.doc = Dict([k \in {x \in DOMAIN raw.d : raw.d[x] # Null}
                                        \cup {"primaryEmail"} |->
                                  IF k = "primaryEmail" THEN Str(email[pr.user])
                                  ELSE raw.d[k]])

\* C9: a delete for a user without a row makes no remote request, returns
\* without error and leaves the Link Table rows of the user as they were.
DeleteWithoutLinkIsNoOp ==
    \A p \in Procs :
        LET pr == proc[p] IN
        (pr.op = "delete" /\ SumRows(pr.pre, Addrs) = 0) =>
            /\ pr.calls = <<>>
            /\ pr.pc \in {"lookup", "done"}
            /\ links[pr.user] = pr.pre
            /\ Done(p) => pr.result = "ok"

DeleteWithoutLinkReached ==
    \E p \in Procs :
        /\ Done(p) /\ proc[p].op = "delete" /\ proc[p].result = "ok"
        /\ SumRows(proc[p].pre, Addrs) = 0

\* C10: with the calls on each user serialized, no user has more than one row.
AtMostOneLinkPerUser == \A u \in Users : LinkCount(u) <= 1

RelinkedUserReached ==
    \E p \in Procs :
        /\ Done(p) /\ proc[p].op = "write" /\ proc[p].result = "ok"
        /\ SumRows(proc[p].pre, Addrs) = 1
        /\ Apis(proc[p].calls) = <<"update", "insert">>
        /\ LinkCount(proc[p].user) = 1

\* C12: a write that ends with the StopSync raised by to_schema has recorded
\* a configuration-error event during the call.
StopSyncHasEvent ==
    \A p \in Procs :
        LET pr == proc[p] IN
        (Done(p) /\ pr.op = "write" /\ pr.result = "StopSync" /\ pr.built = "StopSync") =>
            pr.event

\* C13: a delete for a user with a row keeps the row until the remote delete
\* has answered; when the remote delete succeeds the row is gone on return,
\* and when it fails with Transient or another error that is not NotFound the
\* error reaches the caller and the row is as it was.
DeletePairsRemoteAndUnlink ==
    \A p \in Procs :
        LET pr == proc[p] IN
        (pr.op = "delete" /\ SumRows(pr.pre, Addrs) = 1) =>
            /\ pr.calls = <<>> => links[pr.user] = pr.pre
            /\ pr.pc = "delete_request" => pr.pre[pr.google_user] = 1
            /\ pr.pc = "delete_unlink" =>
                 Outcomes(pr.calls) = <<"ok">> /\ links[pr.user] = pr.pre
            /\ (Done(p) /\ Outcomes(pr.calls) = <<"ok">>) =>
                 pr.result = "ok" /\ LinkCount(pr.user) = 0
            /\ \A e \in {"Transient", "StopSync"} :
                 (Done(p) /\ Outcomes(pr.calls) = <<e>>) =>
                     pr.result = e /\ links[pr.user] = pr.pre

DeletePairedReached ==
    \E p, q \in Procs :
        /\ Done(p) /\ proc[p].op = "delete" /\ SumRows(proc[p].pre, Addrs) = 1
        /\ Outcomes(proc[p].calls) = <<"ok">> /\ LinkCount(proc[p].user) = 0
        /\ Done(q) /\ proc[q].op = "delete" /\ proc[q].result = "Transient"
        /\ LinkCount(proc[q].user) = 1

\* A mapping of the provider's kind raises when it is evaluated.
SomeMappingRaises == \E m \in mappings : m.google /\ m.out = RaiseOut

\* The document of user u has an address outside of the workspace domain.
InvalidAddressBuilt(u) ==
    /\ to_schema(u).status = "ok"
    /\ "primaryEmail" \in DOMAIN to_schema(u).doc.d
    /\ ~check_email_valid(AddressesOf(to_schema(u).doc))

\* C15: when a mapping raises, or the document has an invalid address, write
\* makes no remote request, leaves the rows of its user as they were, ends
\* with a permanent error, and evaluates no mapping after the one that raised.
PermanentFailureBeforeRequest ==
    \A p \in Procs :
        LET pr == proc[p] IN
        (pr.op = "write" /\ (SomeMappingRaises \/ InvalidAddressBuilt(pr.user))) =>
            /\ pr.calls = <<>>
            /\ links[pr.user] = pr.pre
            /\ pr.pc \in {"lookup", "create_schema", "update_schema", "done"}
            /\ Done(p) => pr.result \in {"StopSync", "BadRequest"}
            /\ (Done(p) /\ SomeMappingRaises) =>
                 /\ pr.result = "StopSync"
                 /\ pr.doc = EmptyDict
                 /\ \E m \in mappings :
                      /\ m.out = RaiseOut
                      /\ pr.evaluated[Len(pr.evaluated)] = m.name

PermanentFailureReached ==
    \E p, q \in Procs :
        /\ Done(p) /\ proc[p].op = "write" /\ proc[p].result = "BadRequest"
        /\ SumRows(proc[p].pre, Addrs) = 1
        /\ Done(q) /\ proc[q].op = "write" /\ proc[q].result = "BadRequest"
        /\ SumRows(proc[q].pre, Addrs) = 0

\* C16: a write requests at most one update and at most one insert; an insert
\* only when the lookup found no row or after update reported NotFound; the
\* update is addressed to the id of the row found; when update fails with
\* another error the error reaches the caller, no insert is requested and the
\* rows are as they were; a write that returns normally leaves one row.
WriteFollowsPaths ==
    \A p \in Procs :
        LET pr == proc[p] IN
        pr.op = "write" =>
            /\ Apis(pr.calls) \in {<<>>, <<"update">>, <<"insert">>, <<"update", "insert">>}
            /\ Apis(pr.calls) = <<"insert">> => SumRows(pr.pre, Addrs) = 0
            /\ Apis(pr.calls) = <<"update", "insert">> => pr.calls[1].outcome = "NotFound"
            /\ (pr.calls # <<>> /\ pr.calls[1].api = "update") =>
                 pr.calls[1].key = pr.google_user /\ pr.pre[pr.google_user] = 1
            /\ \A e \in {"Transient", "StopSync"} :
                 (pr.calls # <<>> /\ pr.calls[1] = Call("update", pr.google_user, e)) =>
                     /\ Done(p) /\ pr.result = e
                     /\ Len(pr.calls) = 1
                     /\ links[pr.user] = pr.pre
            /\ (Done(p) /\ Outcomes(pr.calls) = <<"ok">> /\ pr.calls[1].api = "update") =>
                 pr.result = "ok" /\ links[pr.user] = pr.pre
            /\ (Done(p) /\ pr.result = "ok") => LinkCount(pr.user) = 1

UpdateErrorPropagatedReached ==
    \E p, q \in Procs :
        /\ Done(p) /\ proc[p].op = "write" /\ proc[p].result = "StopSync"
        /\ Apis(proc[p].calls) = <<"update">> /\ LinkCount(proc[p].user) = 1
        /\ Done(q) /\ proc[q].op = "write" /\ proc[q].result = "ok"
        /\ Apis(proc[q].calls) = <<"update", "insert">>

\* C17: on the create path no row of the user exists until the insert has
\* answered; when the insert succeeds write returns normally with exactly one
\* row, keyed by the primaryEmail of the response; when the insert fails with
\* an error that is not ObjectExists the error reaches the caller and the user
\* has no row.
LinkOnlyAfterCreate ==
    \A p \in Procs :
        LET pr == proc[p]
            n == Len(pr.calls)
        IN
        pr.op = "write" =>
            /\ pr.pc \in {"create_schema", "create_request", "create_link", "create_adopt"} =>
                 LinkCount(pr.user) = 0
            /\ (Done(p) /\ n >= 1 /\ pr.calls[n].api = "insert") =>
                 /\ pr.calls[n].outcome = "ok" =>
                      /\ pr.result = "ok"
                      /\ pr.response = pr.calls[n].key
                      /\ LinkCount(pr.user) = 1
                      /\ links[pr.user][pr.response] = 1
                 /\ pr.calls[n].outcome \in {"Transient", "StopSync"} =>
                      /\ pr.result = pr.calls[n].outcome
                      /\ LinkCount(pr.user) = 0

LinkKeyedByResponseReached ==
    \E p \in Procs :
        /\ Done(p) /\ proc[p].op = "write" /\ proc[p].result = "ok"
        /\ Apis(proc[p].calls) = <<"insert">>
        /\ Outcomes(proc[p].calls) = <<"ok">>
        /\ proc[p].response # email[proc[p].user]
        /\ links[proc[p].user][proc[p].response] = 1

\* C19: when the insert of a write collides (ObjectExists) with an address
\* that a row of another user holds, the write gives its user no row with
\* that id.
FirstClaimWinsLink ==
    \A p \in Procs :
        LET pr == proc[p]
            n == Len(pr.calls)
        IN
        (Done(p) /\ pr.op = "write" /\ n >= 1 /\ pr.calls[n].outcome = "ObjectExists") =>
            \A v \in Users \ {pr.user} :
                links[v][pr.calls[n].key] > 0 => links[pr.user][pr.calls[n].key] = 0

\* The fields of a document, each with its path: a field of a nested dict has
\* a path of two keys.
LeavesOf(doc) ==
    {<<(<<k>>), doc.d[k]>> : k \in {x \in DOMAIN doc.d : doc.d[x].t # "dict"}}
    \cup UNION {{<<(<<k, j>>), doc.d[k].d[j]>> : j \in DOMAIN doc.d[k].d} :
                   k \in {x \in DOMAIN doc.d : doc.d[x].t = "dict"}}

IsPrefix(q, r) == Len(q) <= Len(r) /\ SubSeq(r, 1, Len(q)) = q

\* The mappings of the provider's kind that give a fragment.
Fragments == {m \in mappings : m.google /\ m.out.t = "dict"}

\* The fields of the fragments that no fragment of a later name replaces: a
\* later fragment replaces a field when it has a field at that path, above it
\* or below it.
LastWrittenLeaves ==
    UNION {{lf \in LeavesOf(m.out) :
               \A m2 \in Fragments :
                   m2.name > m.name =>
                       \A lf2 \in LeavesOf(m2.out) :
                           ~IsPrefix(lf2[1], lf[1]) /\ ~IsPrefix(lf[1], lf2[1])} :
              m \in Fragments}

TwoRowsOnlyWhenOverlapped ==
    \A u \in Users : LinkCount(u) >= 2 => overlapped[u]

\* Two writes on one user both found no row, both requested the insert, the
\* second was answered ObjectExists, and both added a row.
BothWritesLinkedReached ==
    \E p \in Procs, q \in Procs, u \in Users :
        /\ p # q
        /\ Done(p) /\ Done(q)
        /\ proc[p].op = "write" /\ proc[q].op = "write"
        /\ proc[p].user = u /\ proc[q].user = u
        /\ proc[p].pre = NoRows /\ proc[q].pre = NoRows
        /\ Apis(proc[p].calls) = <<"insert">> /\ Outcomes(proc[p].calls) = <<"ok">>
        /\ Apis(proc[q].calls) = <<"insert">>
        /\ Outcomes(proc[q].calls) = <<"ObjectExists">>
        /\ proc[p].result = "ok" /\ proc[q].result = "ok"
        /\ LinkCount(u) = 2
        /\ overlapped[u]

\* The key of the directory user that write requests for user u.
DocumentKey(u) == to_schema(u).doc.d["primaryEmail"].s

\* C11: a caller that calls write again after each Transient failure and each
\* failed commit of the row reaches, once these failures stop, a write that
\* returns normally with exactly one row for its user; and the directory never
\* holds another user for it than the one its document names.
RetriesConverge ==
    /\ [](remote \subseteq {DocumentKey(u) : u \in Users})
    /\ \A p \in Procs :
          <>(/\ Done(p) /\ proc[p].result = "ok"
             /\ LinkCount(Owner[p]) = 1)

\* A retry after a failed commit: the insert is answered ObjectExists for the
\* user the failed call created, and the call ends with one row.
RetryAdoptedReached ==
    \E p \in Procs :
        /\ DocumentKey("u1") # DocumentKey("u2")
        /\ Done(p) /\ proc[p].result = "ok"
        /\ failures >= 1
        /\ Outcomes(proc[p].calls) = <<"ObjectExists">>
        /\ DocumentKey(Owner[p]) \in remote
        /\ LinkCount(Owner[p]) = 1

\* C20: after sequential reads of outpost.user and outpost.token every outpost
\* read has exactly one user, at most one user and one token were created for
\* it, and each read creates the user only when there was none and the token
\* only when there was no API token that is not expired, returning an existing
\* one otherwise.
OutpostGetOrCreate ==
    /\ \A o \in access.accessed :
          /\ user_objects[o] = 1
          /\ access.users_created[o] <= 1
          /\ access.tokens_created[o] <= 1
    /\ access.property # "none" =>
          access.created_user = (IF access.found_user = 0 THEN 1 ELSE 0)
    /\ access.property = "token" =>
          IF filter_not_expired(access.found_tokens) = {}
          THEN access.created_token = 1 /\ access.returned = "api_forever"
          ELSE /\ access.created_token = 0
               /\ access.returned \in filter_not_expired(access.found_tokens)

\* The token is read again after a read created the user and the token, and
\* the read returns that token.
TokenReadAgainReached ==
    \E o \in Outposts :
        /\ access.outpost = o /\ access.property = "token"
        /\ access.users_created[o] = 1 /\ access.tokens_created[o] = 1
        /\ access.created_user = 0 /\ access.created_token = 0
        /\ access.returned = "api_forever"
        /\ token_objects[o]["api_forever"] = 1
====
